---- MODULE Spec2Model ----
(***************************************************************************)
(* Model of src/program.rs: shader compilation, program linking, uniform   *)
(* reflection and teardown, all of them executed as tasks on the single    *)
(* thread that owns the GL context.  Client threads submit tasks to a FIFO *)
(* queue (context.exec) and, for the synchronous ones, block on a channel  *)
(* until the task posts its result.                                        *)
(*                                                                         *)
(* The graphics API is a handle-accounting double.  The program treats     *)
(* handle names as opaque, so the double names each object after the build *)
(* and the stage that created it and never reuses a name: a reference to a *)
(* deleted handle stays distinguishable from a reference to a live one.    *)
(* The double counts the calls made on each handle.                        *)
(***************************************************************************)
EXTENDS Integers, Sequences, FiniteSets, TLC

\* ---------------------------------------------------------------- bounds
NumThreads == 2
MaxBuilds == 2
MaxDraws == 1
MaxReads == 1

Threads == 1..NumThreads
VertexBuffers == {1}

\* ------------------------------------------------------------- constants
VERTEX_SHADER == "VERTEX_SHADER"
GEOMETRY_SHADER == "GEOMETRY_SHADER"
FRAGMENT_SHADER == "FRAGMENT_SHADER"
ShaderTypes == <<VERTEX_SHADER, GEOMETRY_SHADER, FRAGMENT_SHADER>>

\* Shader sources: one that compiles and one with a syntax error.
Sources == {"good", "bad"}
NoSource == "none"

\* The values glGetError can return, as the link task classifies them.
NO_ERROR == "NO_ERROR"
INVALID_VALUE == "INVALID_VALUE"
INVALID_OPERATION == "INVALID_OPERATION"
OTHER_ERROR == "OUT_OF_MEMORY"
GetErrorValues == {NO_ERROR, INVALID_VALUE, INVALID_OPERATION, OTHER_ERROR}

\* The info log the driver reports for a failed compile or link.
InfoLog == "info log"

\* How the model writes a byte that occurs in no UTF-8 text (such as 0xFF).
NotUtf8Byte == "#"

\* The bytes a driver can put into an info log: text in UTF-8, or not.
InfoLogs == {InfoLog, "info l" \o NotUtf8Byte \o "g"}

\* The name buffer of the reflection task: Vec::with_capacity(64), of which
\* glGetActiveUniform is given 63 bytes.
uniform_name_tmp_len == 63

\* The first 62 characters of two uniform names that are longer than that.
LongName == "material_parameters_block_directional_light_shadow_cascade_no_"

\* The active uniforms the driver can report for a linked program:
\* a sequence of (name, type, size), indexed from 1 for uniform index 0.
UniformTables ==
    { <<>>,
      << [name |-> "x", type |-> "FLOAT", size |-> 1],
         [name |-> "m", type |-> "FLOAT_MAT4", size |-> 2] >>,
      << [name |-> LongName \o "0", type |-> "FLOAT", size |-> 1],
         [name |-> LongName \o "1", type |-> "FLOAT_VEC3", size |-> 4] >> }

\* The handle names of the API double: one per build and stage, one per build.
ShaderName(b, shader_type) ==
    Len(ShaderTypes) * (b - 1)
      + (CHOOSE i \in DOMAIN ShaderTypes : ShaderTypes[i] = shader_type)
ProgramName(b) == b
ShaderNames == 1..(Len(ShaderTypes) * MaxBuilds)
ProgramNames == 1..MaxBuilds

\* ------------------------------------------------------------------ state
VARIABLES
    opengl_es,             \* ctxt.opengl_es
    state_program,         \* ctxt.state.program
    vertex_array_objects,  \* display.vertex_array_objects: keys (buffer, program)
    queue,                 \* the context's command queue
    rx,                    \* rx[t]: the channel thread t receives on
    gl,                    \* the objects of the graphics API
    calls,                 \* the API double's accounting of calls
    heap,                  \* the Program values that exist
    th,                    \* th[t]: the locals of thread t
    arcs,                  \* the Arc allocations of the uniform maps
    readers                \* the Arcs handed out by get_uniforms_locations

vars == <<opengl_es, state_program, vertex_array_objects, queue, rx, gl, calls,
          heap, th, arcs, readers>>

\* ------------------------------------------------------ ProgramCreationError
CompilationError(msg) == [kind |-> "CompilationError", id |-> 0, msg |-> msg, uniforms |-> {}]
LinkingError(msg) == [kind |-> "LinkingError", id |-> 0, msg |-> msg, uniforms |-> {}]
ProgramCreationFailure == [kind |-> "ProgramCreationFailure", id |-> 0, msg |-> "", uniforms |-> {}]
ShaderTypeNotSupported == [kind |-> "ShaderTypeNotSupported", id |-> 0, msg |-> "", uniforms |-> {}]
Ok(id) == [kind |-> "Ok", id |-> id, msg |-> "", uniforms |-> {}]
OkUniforms(u) == [kind |-> "Uniforms", id |-> 0, msg |-> "", uniforms |-> u]
NoMsg == [kind |-> "none", id |-> 0, msg |-> "", uniforms |-> {}]
\* The channel of a task that ended without a send: its sender is dropped.
Disconnected == [kind |-> "Disconnected", id |-> 0, msg |-> "", uniforms |-> {}]

ErrorKinds == {"CompilationError", "LinkingError", "ProgramCreationFailure",
               "ShaderTypeNotSupported"}

\* ------------------------------------------------------------------ tasks
BuildShaderTask(t, shader_type, source_code) ==
    [type |-> "build_shader", t |-> t, shader_type |-> shader_type,
     source_code |-> source_code, id |-> 0, ids |-> <<>>]
LinkTask(t, ids) ==
    [type |-> "link", t |-> t, shader_type |-> "", source_code |-> "",
     id |-> 0, ids |-> ids]
ReflectTask(t, id) ==
    [type |-> "reflect", t |-> t, shader_type |-> "", source_code |-> "",
     id |-> id, ids |-> <<>>]
\* Faulty variant of DeleteShaderTask: the task deletes handle 0, which glDeleteShader
\* silently ignores, instead of the shader's handle.
DeleteShaderTask_Zero(id) ==
    [type |-> "delete_shader", t |-> 0, shader_type |-> "", source_code |-> "",
     id |-> 0, ids |-> <<>>]
DeleteShaderTask(id) ==
    [type |-> "delete_shader", t |-> 0, shader_type |-> "", source_code |-> "",
     id |-> id, ids |-> <<>>]
\* Faulty variant of DeleteProgramTask: the destroy command names no program, so
\* the shaders of a dropped Program are deleted with their program allocated.
DeleteProgramTask_Zero(id) ==
    [type |-> "delete_program", t |-> 0, shader_type |-> "", source_code |-> "",
     id |-> 0, ids |-> <<>>]
DeleteProgramTask(id) ==
    [type |-> "delete_program", t |-> 0, shader_type |-> "", source_code |-> "",
     id |-> id, ids |-> <<>>]
UseProgramTask(id) ==
    [type |-> "use_program", t |-> 0, shader_type |-> "", source_code |-> "",
     id |-> id, ids |-> <<>>]

\* context.exec: the task joins the end of the queue.
exec(q, task) == Append(q, task)

\* ------------------------------------------------------------ Program values
ProgramValue(id, shaders, uniforms) ==
    [id |-> id, shaders |-> shaders, uniforms |-> uniforms]
NoProgram == ProgramValue(0, <<>>, {})

\* ------------------------------------------------------------------- Arc
\* Arc::new(data): an allocation with one strong reference.  Each program's
\* map gets one, named after the program.
Arc_new(a, ptr, data) == (ptr :> [strong |-> 1, data |-> data]) @@ a

\* Arc::clone: one more strong reference to the same allocation.
Arc_clone(a, ptr) == [a EXCEPT ![ptr].strong = @ + 1]

\* Drop for Arc: the allocation is freed with its last strong reference.
Arc_drop(a, ptr) ==
    IF ptr \notin DOMAIN a THEN a
    ELSE IF a[ptr].strong = 1 THEN [q \in DOMAIN a \ {ptr} |-> a[q]]
    ELSE [a EXCEPT ![ptr].strong = @ - 1]

\* An Arc a reader holds, with the map the reader found behind it.
Reader(ptr, seen) == [ptr |-> ptr, seen |-> seen]

\* -------------------------------------------------------------- thread locals
IdleThread ==
    [pc |-> "idle", build |-> 0, vertex_shader |-> NoSource,
     geometry_shader |-> NoSource, fragment_shader |-> NoSource,
     shaders_store |-> <<>>, id |-> 0, err |-> NoMsg, result |-> "none",
     dropped |-> NoProgram]

\* What the API double has recorded for the operation a thread last started.
NoBuildCalls ==
    [geometry |-> FALSE, creates |-> <<>>, created |-> <<>>, uploads |-> <<>>,
     program |-> 0, attached |-> <<>>, link |-> "none", failed |-> "none"]

Range(s) == { s[i] : i \in DOMAIN s }

Init ==
    /\ opengl_es \in BOOLEAN
    /\ state_program = 0
    /\ vertex_array_objects = {}
    /\ queue = <<>>
    /\ rx = [t \in Threads |-> NoMsg]
    /\ gl = [shaders |-> {}, programs |-> {}, flagged |-> {},
             attached |-> <<>>, linked |-> {}, uniforms |-> <<>>]
    /\ calls = [DeleteShader |-> [i \in ShaderNames |-> 0],
                DeleteProgram |-> [i \in ProgramNames |-> 0],
                dead |-> {}, builds |-> 0, draws |-> 0, reads |-> 0,
                build |-> [t \in Threads |-> NoBuildCalls]]
    /\ heap = {}
    /\ th = [t \in Threads |-> IdleThread]
    /\ arcs = <<>>
    /\ readers = {}

\* ============================================================ client side

\* Faulty variant of NextStage: the fragment stage is compiled before the geometry
\* stage.
NextStage_FragmentFirst(pc, geometry_shader) ==
    CASE pc = "recv_vertex" -> "fragment"
      [] pc = "recv_fragment" ->
            IF geometry_shader # NoSource THEN "geometry" ELSE "link"
      [] OTHER -> "link"

\* The stage Program::new compiles after `pc`, or "link" after the last one.
NextStage(pc, geometry_shader) ==
    CASE pc = "recv_vertex" ->
            IF geometry_shader # NoSource THEN "geometry" ELSE "fragment"
      [] pc = "recv_geometry" -> "fragment"
      [] OTHER -> "link"

\* The ids collected from shaders_store for the link task.
shaders_ids(shaders_store) == [i \in DOMAIN shaders_store |-> shaders_store[i]]

\* Program::new up to its first blocking recv: the vertex stage is submitted.
NewStart(t, vs, gs, fs) ==
    /\ th[t].pc = "idle"
    /\ calls.builds < MaxBuilds
    /\ th' = [th EXCEPT ![t] = [IdleThread EXCEPT
                !.pc = "recv_vertex", !.build = calls.builds + 1,
                !.vertex_shader = vs, !.geometry_shader = gs,
                !.fragment_shader = fs]]
    /\ queue' = exec(queue, BuildShaderTask(t, VERTEX_SHADER, vs))
    /\ calls' = [calls EXCEPT !.builds = @ + 1,
                   !.build[t] = [NoBuildCalls EXCEPT !.geometry = (gs # NoSource)]]
    /\ UNCHANGED <<opengl_es, arcs, readers, state_program, vertex_array_objects, rx, gl, heap>>

\* The locals of a thread whose call has returned `result`, or has ended
\* the thread: rx.recv() on a disconnected channel panics.
Returned(r, result) ==
    [IdleThread EXCEPT !.result = result, !.dropped = r.dropped,
                       !.pc = IF result = Disconnected.kind THEN "panicked"
                              ELSE "idle"]

\* Faulty variant of Leave: the error is returned and shaders_store is leaked.
Leave_Leak(r, e) == Returned(r, e.kind)

\* try!(Err(e)), or the unwinding of a panic: Program::new is left with e
\* once the shaders of shaders_store have been dropped.
Leave(r, e) ==
    IF r.shaders_store = <<>> THEN Returned(r, e.kind)
    ELSE [r EXCEPT !.err = e, !.pc = "unwind"]

\* build_shader returns (rx.recv) and Program::new goes on to the next stage,
\* or to the link task, or leaves through try!.
RecvShader(t) ==
    /\ th[t].pc \in {"recv_vertex", "recv_geometry", "recv_fragment"}
    /\ rx[t] # NoMsg
    /\ rx' = [rx EXCEPT ![t] = NoMsg]
    /\ IF rx[t].kind = "Ok"
       THEN LET store == Append(th[t].shaders_store, rx[t].id)
                next == NextStage(th[t].pc, th[t].geometry_shader)
            IN  /\ th' = [th EXCEPT ![t].shaders_store = store,
                                    ![t].pc = IF next = "link" THEN "recv_link"
                                              ELSE "recv_" \o next]
                /\ queue' =
                     CASE next = "geometry" ->
                            exec(queue, BuildShaderTask(t, GEOMETRY_SHADER,
                                                        th[t].geometry_shader))
                       [] next = "fragment" ->
                            exec(queue, BuildShaderTask(t, FRAGMENT_SHADER,
                                                        th[t].fragment_shader))
                       [] OTHER -> exec(queue, LinkTask(t, shaders_ids(store)))
       ELSE /\ th' = [th EXCEPT ![t] = Leave(@, rx[t])]
            /\ UNCHANGED queue
    /\ UNCHANGED <<opengl_es, arcs, readers, state_program, vertex_array_objects, gl, calls, heap>>

\* let id = try!(rx.recv()), then the reflection task is submitted.
RecvLink(t) ==
    /\ th[t].pc = "recv_link"
    /\ rx[t] # NoMsg
    /\ rx' = [rx EXCEPT ![t] = NoMsg]
    /\ IF rx[t].kind = "Ok"
       THEN /\ th' = [th EXCEPT ![t].id = rx[t].id, ![t].pc = "recv_uniforms"]
            /\ queue' = exec(queue, ReflectTask(t, rx[t].id))
       ELSE /\ th' = [th EXCEPT ![t] = Leave(@, rx[t])]
            /\ UNCHANGED queue
    /\ UNCHANGED <<opengl_es, arcs, readers, state_program, vertex_array_objects, gl, calls, heap>>

\* Faulty variant of moved: the Shaders of shaders_store are dropped on success too.
RECURSIVE moved_Dropped(_, _)
moved_Dropped(q, shaders_store) ==
    IF shaders_store = <<>> THEN q
    ELSE moved_Dropped(exec(q, DeleteShaderTask(Head(shaders_store))),
                       Tail(shaders_store))

\* The queue after a successful build: shaders_store is moved into the
\* Program, so no Shader is dropped and no task is submitted.
moved(q, shaders_store) == q

\* Ok(Program { shaders: shaders_store, id: id, uniforms: rx.recv() })
RecvUniforms(t) ==
    /\ th[t].pc = "recv_uniforms"
    /\ rx[t] # NoMsg
    /\ rx' = [rx EXCEPT ![t] = NoMsg]
    /\ IF rx[t].kind = "Uniforms"
       THEN /\ heap' = heap \cup {ProgramValue(th[t].id, th[t].shaders_store,
                                                rx[t].uniforms)}
            /\ queue' = moved(queue, th[t].shaders_store)
            /\ th' = [th EXCEPT ![t] = Returned(@, "Ok")]
       ELSE /\ th' = [th EXCEPT ![t] = Leave(@, rx[t])]
            /\ UNCHANGED <<heap, queue>>
    /\ UNCHANGED <<opengl_es, arcs, readers, state_program, vertex_array_objects, gl, calls>>

\* Drop for Shader, for the next Shader of a Vec<Shader> being dropped: on the
\* way out of a failed Program::new, or as a field of a dropped Program.  With
\* the last one dropped the call returns.
DropShader(t) ==
    /\ th[t].pc \in {"unwind", "drop_fields"}
    /\ th[t].shaders_store # <<>>
    /\ queue' = exec(queue, DeleteShaderTask(Head(th[t].shaders_store)))
    /\ th' = [th EXCEPT ![t] =
                IF Tail(@.shaders_store) # <<>>
                THEN [@ EXCEPT !.shaders_store = Tail(@)]
                ELSE Returned(@, IF @.pc = "unwind" THEN @.err.kind ELSE "Dropped")]
    /\ UNCHANGED <<opengl_es, arcs, readers, state_program, vertex_array_objects, rx, gl, calls, heap>>

\* Faulty variant of to_delete: the filter compares the key's buffer, not its program.
to_delete_ByBuffer(vaos, id) == { k \in vaos : k[1] = id }

\* Faulty variant of to_delete: no filter, every key is removed.
to_delete_All(vaos, id) == vaos

\* The keys Drop for Program removes from the vertex array object cache.
to_delete(vaos, id) == { k \in vaos : k[2] = id }

\* Faulty variants of DropFields: the shaders are leaked; the shaders are dropped twice.
DropFields_None(p) == <<>>
DropFields_Twice(p) == p.shaders \o p.shaders

\* The fields of a Program dropped after Drop::drop has run: its shaders.
DropFields(p) == p.shaders

\* Drop::drop of a Program: the VAOs which contain this program are removed,
\* the destroy command is sent.  The drops of its fields follow: of its
\* shaders, one step each, and of its reference to the uniform map.
DropProgram(t, p) ==
    /\ th[t].pc = "idle"
    /\ p \in heap
    /\ heap' = heap \ {p}
    /\ vertex_array_objects' =
          vertex_array_objects \ to_delete(vertex_array_objects, p.id)
    /\ queue' = exec(queue, DeleteProgramTask(p.id))
    /\ th' = [th EXCEPT ![t] =
                IF DropFields(p) = <<>>
                THEN [IdleThread EXCEPT !.result = "Dropped", !.dropped = p]
                ELSE [IdleThread EXCEPT !.pc = "drop_fields", !.dropped = p,
                                        !.shaders_store = DropFields(p)]]
    /\ calls' = [calls EXCEPT !.build[t] = NoBuildCalls]
    /\ arcs' = Arc_drop(arcs, p.id)
    /\ UNCHANGED <<opengl_es, readers, state_program, rx, gl>>

\* A draw call with program p and vertex buffer vb: the caching of the vertex
\* array object under (vb, p.id) and the command that binds the program.
Draw(t, p, vb) ==
    /\ th[t].pc = "idle"
    /\ p \in heap
    /\ calls.draws < MaxDraws
    /\ vertex_array_objects' = vertex_array_objects \cup {<<vb, p.id>>}
    /\ queue' = exec(queue, UseProgramTask(p.id))
    /\ calls' = [calls EXCEPT !.draws = @ + 1, !.build[t] = NoBuildCalls]
    /\ th' = [th EXCEPT ![t] = [IdleThread EXCEPT !.result = "Drawn"]]
    /\ UNCHANGED <<opengl_es, arcs, readers, state_program, rx, gl, heap>>

\* Faulty variant of get_uniforms_locations: the reference is handed out uncounted.
get_uniforms_locations_Uncounted(a, program) == a

\* program.uniforms.clone(): the allocations after the call.
get_uniforms_locations(a, program) == Arc_clone(a, program.id)

\* A reader on thread t calls get_uniforms_locations(p) and keeps the Arc.
GetUniformsLocations(t, p) ==
    /\ th[t].pc = "idle"
    /\ p \in heap
    /\ calls.reads < MaxReads
    /\ arcs' = get_uniforms_locations(arcs, p)
    /\ readers' = readers \cup {Reader(p.id, arcs[p.id].data)}
    /\ calls' = [calls EXCEPT !.reads = @ + 1]
    /\ UNCHANGED <<opengl_es, state_program, vertex_array_objects, queue, rx, gl,
                   heap, th>>

\* ========================================================== context thread

\* tx.send(m) to the thread blocked on the task's channel.
Send(t, m) == rx' = [rx EXCEPT ![t] = m]

\* String::from_utf8(bytes): Ok(the text) for bytes that are UTF-8, or Err.
from_utf8(bytes) ==
    [is_ok |-> \A i \in 1..Len(bytes) : SubSeq(bytes, i, i) # NotUtf8Byte,
     value |-> bytes]

\* tx.send(m), for a message m made of from_utf8(bytes).unwrap(): unwrap() of
\* an Err panics, the task ends there, and its tx is dropped with nothing sent.
SendText(t, bytes, m) ==
    IF from_utf8(bytes).is_ok THEN Send(t, m) ELSE Send(t, Disconnected)

\* Faulty variant of GeometryUnsupported: the backend's profile is not checked.
GeometryUnsupported_Never(shader_type, es) == FALSE

\* shader_type == gl::GEOMETRY_SHADER && ctxt.opengl_es
GeometryUnsupported(shader_type, es) == shader_type = GEOMETRY_SHADER /\ es

\* glCreateShader for a stage of build b: zero, or a new handle.
CreateShader(b, shader_type) == {0, ShaderName(b, shader_type)}

\* glCreateProgram for build b: zero, or a new handle.
CreateProgram(b) == {0, ProgramName(b)}

\* GL_COMPILE_STATUS after glCompileShader of this source.
compilation_success(source_code) == IF source_code = "good" THEN 1 ELSE 0

\* The stage names the accounting uses.
StageOf(shader_type) ==
    CASE shader_type = VERTEX_SHADER -> "vertex"
      [] shader_type = GEOMETRY_SHADER -> "geometry"
      [] OTHER -> "fragment"

\* Faulty variant of ShaderCreationFailed: the handle is not checked.
ShaderCreationFailed_Never(id) == FALSE

\* if id == 0, after CreateShader.
ShaderCreationFailed(id) == id = 0

\* The task of build_shader.
ExecBuildShader ==
    /\ queue # <<>>
    /\ Head(queue).type = "build_shader"
    /\ queue' = Tail(queue)
    /\ LET task == Head(queue)
           t == task.t
           stage == StageOf(task.shader_type)
       IN  IF GeometryUnsupported(task.shader_type, opengl_es)
           THEN /\ Send(t, ShaderTypeNotSupported)
                /\ calls' = [calls EXCEPT !.build[t].failed = stage]
                /\ UNCHANGED gl
           ELSE \E id \in CreateShader(th[t].build, task.shader_type) :
                  IF ShaderCreationFailed(id)
                  THEN /\ Send(t, ShaderTypeNotSupported)
                       /\ calls' = [calls EXCEPT
                             !.build[t].creates = Append(@, <<stage, id>>),
                             !.build[t].failed = stage]
                       /\ UNCHANGED gl
                  ELSE /\ gl' = [gl EXCEPT !.shaders = @ \cup {id}]
                       /\ IF compilation_success(task.source_code) = 0
                          THEN /\ \E error_log \in InfoLogs :
                                     SendText(t, error_log,
                                              CompilationError(from_utf8(error_log).value))
                               /\ calls' = [calls EXCEPT
                                     !.build[t].creates = Append(@, <<stage, id>>),
                                     !.build[t].created = Append(@, id),
                                     !.build[t].uploads = Append(@, stage),
                                     !.build[t].failed = stage]
                          ELSE /\ Send(t, Ok(id))
                               /\ calls' = [calls EXCEPT
                                     !.build[t].creates = Append(@, <<stage, id>>),
                                     !.build[t].created = Append(@, id),
                                     !.build[t].uploads = Append(@, stage)]
    /\ UNCHANGED <<opengl_es, arcs, readers, state_program, vertex_array_objects, heap, th>>

\* The bytes of the LinkingError sent for a failed link, by glGetError's
\* value: the program's info log, or a text of the task's own.
LinkErrorText(e, error_log) ==
    CASE e = NO_ERROR -> error_log
      [] e = INVALID_VALUE -> "glLinkProgram triggered GL_INVALID_VALUE"
      [] e = INVALID_OPERATION -> "glLinkProgram triggered GL_INVALID_OPERATION"
      [] OTHER -> "glLinkProgram triggered an unknown error"

\* The calls of a task that named a handle that is not allocated.
DeadCalls(name, ids, live) == IF ids \subseteq live THEN {} ELSE {name}

\* Faulty variant of CreationFailed: the handle is not checked.
CreationFailed_Never(id) == FALSE

\* if id == 0, after CreateProgram.
CreationFailed(id) == id = 0

\* The first task of Program::new: CreateProgram, AttachShader, LinkProgram.
ExecLink ==
    /\ queue # <<>>
    /\ Head(queue).type = "link"
    /\ queue' = Tail(queue)
    /\ LET task == Head(queue)
           t == task.t
       IN  \E id \in CreateProgram(th[t].build) :
             IF CreationFailed(id)
             THEN /\ Send(t, ProgramCreationFailure)
                  /\ calls' = [calls EXCEPT !.build[t].link = "not created"]
                  /\ UNCHANGED gl
             ELSE \E link_success \in {0, 1} :
                    LET attached == (id :> Range(task.ids)) @@ gl.attached
                        dead == calls.dead \cup
                                  DeadCalls("AttachShader", Range(task.ids), gl.shaders)
                    IN  IF link_success = 0
                        THEN \E e \in GetErrorValues, error_log \in InfoLogs :
                               /\ SendText(t, LinkErrorText(e, error_log),
                                           LinkingError(from_utf8(
                                              LinkErrorText(e, error_log)).value))
                               /\ gl' = [gl EXCEPT !.programs = @ \cup {id},
                                                   !.attached = attached]
                               /\ calls' = [calls EXCEPT !.dead = dead,
                                              !.build[t].program = id,
                                              !.build[t].attached = task.ids,
                                              !.build[t].link = "failed"]
                        ELSE \E u \in UniformTables :
                               /\ Send(t, Ok(id))
                               /\ gl' = [gl EXCEPT !.programs = @ \cup {id},
                                                   !.attached = attached,
                                                   !.linked = @ \cup {id},
                                                   !.uniforms = (id :> u) @@ @]
                               /\ calls' = [calls EXCEPT !.dead = dead,
                                              !.build[t].program = id,
                                              !.build[t].attached = task.ids,
                                              !.build[t].link = "linked"]
    /\ UNCHANGED <<opengl_es, arcs, readers, state_program, vertex_array_objects, heap, th>>

\* glGetUniformLocation by name: the index of the first active uniform of
\* that name, or -1.
GetUniformLocation(table, name) ==
    IF \E i \in DOMAIN table : table[i].name = name
    THEN (CHOOSE i \in DOMAIN table :
            /\ table[i].name = name
            /\ \A j \in DOMAIN table : table[j].name = name => i <= j) - 1
    ELSE -1

\* glGetActiveUniform(id, uniform_id, bufSize, ..): the uniform's type and
\* size, and its name cut to what the buffer holds with the terminating NUL.
GetActiveUniform(table, uniform_id, bufSize) ==
    LET u == table[uniform_id + 1]
        length == IF Len(u.name) < bufSize THEN Len(u.name) ELSE bufSize - 1
    IN  [name |-> SubSeq(u.name, 1, length), type |-> u.type, size |-> u.size]

\* HashMap::insert: the entry of an equal key is replaced.
insert(map, key, value) ==
    { e \in map : e[1] # key } \cup { <<key, value>> }

\* The loop of the reflection task over uniform_id in [uniform_id, active).
RECURSIVE reflect(_, _, _)
reflect(table, uniform_id, uniforms) ==
    IF uniform_id >= Len(table) THEN uniforms
    ELSE LET u == GetActiveUniform(table, uniform_id, uniform_name_tmp_len)
             location == GetUniformLocation(table, u.name)
         IN  reflect(table, uniform_id + 1,
                     insert(uniforms, u.name, <<location, u.type, u.size>>))

\* The second task of Program::new: reflecting program uniforms.
ExecReflect ==
    /\ queue # <<>>
    /\ Head(queue).type = "reflect"
    /\ queue' = Tail(queue)
    /\ LET task == Head(queue)
           id == task.id
           table == IF id \in DOMAIN gl.uniforms THEN gl.uniforms[id] ELSE <<>>
       IN  /\ IF \A i \in DOMAIN table :
                     from_utf8(GetActiveUniform(table, i - 1,
                                                uniform_name_tmp_len).name).is_ok
              THEN /\ Send(task.t, OkUniforms(reflect(table, 0, {})))
                   /\ arcs' = Arc_new(arcs, id, reflect(table, 0, {}))
              ELSE /\ Send(task.t, Disconnected)
                   /\ UNCHANGED arcs
           /\ calls' = [calls EXCEPT !.dead = @ \cup
                          DeadCalls("GetProgramiv", {id}, gl.programs \cap gl.linked)]
    /\ UNCHANGED <<opengl_es, readers, state_program, vertex_array_objects, gl, heap, th>>

\* A call counted on a handle (counts above 2 are not told apart).
Count(counts, id) ==
    IF id \in DOMAIN counts
    THEN [counts EXCEPT ![id] = IF @ < 2 THEN @ + 1 ELSE @]
    ELSE counts

\* The shaders attached to some program object.
Attached(g) == UNION { g.attached[p] : p \in DOMAIN g.attached }

\* The task of Drop for Shader.  glDeleteShader frees the shader, or flags it
\* for deletion while it is attached to a program object.
ExecDeleteShader ==
    /\ queue # <<>>
    /\ Head(queue).type = "delete_shader"
    /\ queue' = Tail(queue)
    /\ LET id == Head(queue).id
       IN  /\ gl' = IF id \in Attached(gl) /\ id \in gl.shaders
                    THEN [gl EXCEPT !.flagged = @ \cup {id}]
                    ELSE [gl EXCEPT !.shaders = @ \ {id}]
           /\ calls' = [calls EXCEPT
                          !.DeleteShader = Count(@, id),
                          !.dead = @ \cup
                             DeadCalls("DeleteShader", {id}, gl.shaders \ gl.flagged)]
    /\ UNCHANGED <<opengl_es, arcs, readers, state_program, vertex_array_objects, rx, heap, th>>

\* Faulty variant of Unbind: the destroy command does not look at the bound program.
Unbind_Never(program, id) == program

\* ctxt.state.program after the destroy command of program id.
Unbind(program, id) == IF program = id THEN 0 ELSE program

\* The task of Drop for Program.  glDeleteProgram detaches the program's
\* shaders, which frees those flagged for deletion.
ExecDeleteProgram ==
    /\ queue # <<>>
    /\ Head(queue).type = "delete_program"
    /\ queue' = Tail(queue)
    /\ LET id == Head(queue).id
           rest == [p \in DOMAIN gl.attached \ {id} |-> gl.attached[p]]
           freed == { s \in gl.flagged :
                        \A p \in DOMAIN rest : s \notin rest[p] }
       IN  /\ state_program' = Unbind(state_program, id)
           /\ gl' = [gl EXCEPT !.programs = @ \ {id},
                               !.attached = rest,
                               !.linked = @ \ {id},
                               !.uniforms = [p \in DOMAIN @ \ {id} |-> @[p]],
                               !.flagged = @ \ freed,
                               !.shaders = @ \ freed]
           /\ calls' = [calls EXCEPT
                          !.DeleteProgram = Count(@, id),
                          !.dead = @ \cup DeadCalls("DeleteProgram", {id}, gl.programs)]
    /\ UNCHANGED <<opengl_es, arcs, readers, vertex_array_objects, rx, heap, th>>

\* The command of a draw call that binds its program.
ExecUseProgram ==
    /\ queue # <<>>
    /\ Head(queue).type = "use_program"
    /\ queue' = Tail(queue)
    /\ LET id == Head(queue).id
       IN  /\ state_program' = id
           /\ calls' = [calls EXCEPT
                          !.dead = @ \cup DeadCalls("UseProgram", {id}, gl.programs)]
    /\ UNCHANGED <<opengl_es, arcs, readers, vertex_array_objects, rx, gl, heap, th>>

\* ================================================================== system
Next ==
    \/ \E t \in Threads : \E vs \in Sources, fs \in Sources :
         \E gs \in Sources \cup {NoSource} : NewStart(t, vs, gs, fs)
    \/ \E t \in Threads : RecvShader(t)
    \/ \E t \in Threads : RecvLink(t)
    \/ \E t \in Threads : RecvUniforms(t)
    \/ \E t \in Threads : DropShader(t)
    \/ \E t \in Threads : \E p \in heap : DropProgram(t, p)
    \/ \E t \in Threads : \E p \in heap : \E vb \in VertexBuffers : Draw(t, p, vb)
    \/ \E t \in Threads : \E p \in heap : GetUniformsLocations(t, p)
    \/ ExecBuildShader
    \/ ExecLink
    \/ ExecReflect
    \/ ExecDeleteShader
    \/ ExecDeleteProgram
    \/ ExecUseProgram

Spec == Init /\ [][Next]_vars


\* ================================================================== claims

\* The shader handles created in the build thread t last started, and those
\* among them whose stage compiled.
CreatedIn(t) == Range(calls.build[t].created)
CompiledIn(t) ==
    { calls.build[t].created[i] : i \in
        { j \in DOMAIN calls.build[t].created :
            calls.build[t].uploads[j] # calls.build[t].failed } }

\* Program::new has returned an error to thread t.
Failed(t) == th[t].pc = "idle" /\ th[t].result \in ErrorKinds

\* The tasks of the queue that are of this type and name this handle.
Queued(type, id) ==
    { i \in DOMAIN queue : queue[i].type = type /\ queue[i].id = id }

\* C1: after a build that failed because the fragment stage did not compile,
\* and once the queue has drained, no shader handle created in that build is
\* still allocated (the failing stage's own handle included) and no program
\* handle was allocated.
C1_FragmentFailureLeavesNoHandle ==
    \A t \in Threads :
        (/\ Failed(t)
         /\ th[t].result = "CompilationError"
         /\ calls.build[t].failed = "fragment"
         /\ queue = <<>>)
        => /\ CreatedIn(t) \cap gl.shaders = {}
           /\ calls.build[t].program = 0

C3_FailedBuildLeavesNoProgram ==
    \A t \in Threads :
        (Failed(t) /\ queue = <<>>)
        => \/ calls.build[t].program = 0
           \/ calls.build[t].program \notin gl.programs

\* C4 as stated: from the moment a build with a geometry source on an
\* opengl_es backend fails past its vertex stage, the error is
\* ShaderTypeNotSupported and no ShaderSource call has been made in that
\* build, for any stage.
C4_NoUploadBeforeUnsupported ==
    \A t \in Threads :
        (/\ calls.build[t].geometry /\ opengl_es
         /\ calls.build[t].failed \notin {"none", "vertex"})
        => /\ "ShaderTypeNotSupported" \in {rx[t].kind, th[t].err.kind, th[t].result}
           /\ calls.build[t].uploads = <<>>

\* C4 as amended: a build with a geometry source on an opengl_es backend
\* always fails, at the vertex or at the geometry stage; when the vertex stage
\* compiled, the error is ShaderTypeNotSupported and, from the moment the
\* geometry task fails on, the only ShaderSource call of the build is the
\* vertex stage's: none for the geometry stage, none for the fragment stage.
C4_OnlyVertexUploadedBeforeUnsupported ==
    \A t \in Threads :
        (calls.build[t].geometry /\ opengl_es)
        => /\ th[t].pc = "idle" =>
                /\ th[t].result \in ErrorKinds
                /\ calls.build[t].failed \in {"vertex", "geometry"}
           /\ calls.build[t].failed = "geometry" =>
                /\ calls.build[t].uploads = <<"vertex">>
                /\ "ShaderTypeNotSupported" \in
                      {rx[t].kind, th[t].err.kind, th[t].result}
           /\ calls.build[t].failed = "vertex" => calls.build[t].uploads \in
                                                   {<<>>, <<"vertex">>}
           /\ calls.build[t].failed = "none" => th[t].pc # "idle"

C4_Witness ==
    \E t \in Threads :
        /\ th[t].pc = "idle"
        /\ calls.build[t].geometry /\ opengl_es
        /\ calls.build[t].failed = "geometry"
        /\ th[t].result = "ShaderTypeNotSupported"
        /\ calls.build[t].uploads = <<"vertex">>

\* C5: no handle is deleted twice, no handle of a Program that still exists
\* is deleted, and once the queue has drained after a Program was dropped its
\* program handle and each of its shader handles has been deleted exactly
\* once and none of them is allocated any more.
C5_DropDeletesEachHandleOnce ==
    /\ \A id \in ShaderNames : calls.DeleteShader[id] <= 1
    /\ \A id \in ProgramNames : calls.DeleteProgram[id] <= 1
    /\ \A p \in heap :
          /\ calls.DeleteProgram[p.id] = 0
          /\ \A id \in Range(p.shaders) : calls.DeleteShader[id] = 0
    /\ \A t \in Threads :
          (th[t].pc = "idle" /\ th[t].result = "Dropped" /\ queue = <<>>)
          => /\ calls.DeleteProgram[th[t].dropped.id] = 1
             /\ th[t].dropped.id \notin gl.programs
             /\ \A id \in Range(th[t].dropped.shaders) :
                   calls.DeleteShader[id] = 1 /\ id \notin gl.shaders

C5_Witness ==
    \E t \in Threads :
        /\ th[t].pc = "idle" /\ th[t].result = "Dropped" /\ queue = <<>>
        /\ Len(th[t].dropped.shaders) = 3
        /\ calls.DeleteProgram[th[t].dropped.id] = 1
        /\ \A id \in Range(th[t].dropped.shaders) : calls.DeleteShader[id] = 1
        /\ heap # {}

\* C6: no task has run on a handle that was not allocated at that moment:
\* AttachShader on a shader not created or already deleted, a reflection query
\* on a program not created and linked, the deletion of a handle not created
\* or already deleted, the binding of a deleted program.
C6_TasksRunOnLiveHandles == calls.dead = {}

C6_Witness ==
    /\ calls.dead = {}
    /\ \E p \in heap : p.id \in gl.linked /\ Len(p.shaders) = 3
    /\ \E id \in ShaderNames : calls.DeleteShader[id] = 1
    /\ \E id \in ProgramNames : calls.DeleteProgram[id] = 1

\* C7: the tracked bound program is never a deleted program, and it changes
\* only when a draw command binds a program or, to 0, when the destroy
\* command of the program that was bound runs: the destroy command of any
\* other program leaves it as it is.
C7_BoundProgramNeverDeleted ==
    [][ /\ state_program' = 0 \/ state_program' \in gl'.programs
        /\ state_program' # state_program =>
              \/ Head(queue).type = "use_program"
              \/ /\ Head(queue).type = "delete_program"
                 /\ Head(queue).id = state_program
                 /\ state_program' = 0 ]_vars

C7_Witness ==
    /\ state_program = 0
    /\ calls.draws = 1
    /\ \A i \in DOMAIN queue : queue[i].type # "use_program"
    /\ \E id \in ProgramNames : calls.DeleteProgram[id] = 1

\* C8: every key of the vertex array object cache names a program handle that
\* is allocated: no program is deleted while the cache holds a key with it.
C8_CacheKeysNameLivePrograms ==
    \A k \in vertex_array_objects :
        k[2] \in gl.programs /\ calls.DeleteProgram[k[2]] = 0

C8_Witness ==
    /\ calls.draws = 1
    /\ vertex_array_objects = {}
    /\ \A i \in DOMAIN queue : queue[i].type # "delete_program"
    /\ \E id \in ProgramNames : calls.DeleteProgram[id] = 1

\* C9: the program handle of every Program that exists is allocated and
\* linked, its shader handles are allocated and not flagged for deletion, and
\* no deletion of any of them has run or is queued.
C9_ExistingProgramsAreLive ==
    \A p \in heap :
        /\ p.id \in gl.programs \cap gl.linked
        /\ calls.DeleteProgram[p.id] = 0
        /\ Queued("delete_program", p.id) = {}
        /\ \A id \in Range(p.shaders) :
              /\ id \in gl.shaders \ gl.flagged
              /\ calls.DeleteShader[id] = 0
              /\ Queued("delete_shader", id) = {}

C9_Witness ==
    /\ \E p \in heap : Len(p.shaders) = 3
    /\ \E id \in ShaderNames : calls.DeleteShader[id] = 1
    /\ \E t \in Threads : th[t].pc = "unwind"

\* C10 as stated: while the caller holds the error of a failed build, no
\* shader compiled in that build is still allocated.
C10_CleanupDoneWhenErrorReturned ==
    \A t \in Threads :
        Failed(t) => CompiledIn(t) \cap gl.shaders = {}

\* C10 as amended: when the caller holds the error of a failed build, the
\* deletion of every shader compiled in that build has been submitted: its
\* DeleteShader task is in the queue, once, or has run, once.
C10_CleanupSubmittedWhenErrorReturned ==
    \A t \in Threads :
        Failed(t) =>
            \A id \in CompiledIn(t) :
                Cardinality(Queued("delete_shader", id)) + calls.DeleteShader[id] = 1

C10_Witness ==
    \E t \in Threads :
        /\ Failed(t)
        /\ \E id \in CompiledIn(t) :
              /\ Queued("delete_shader", id) # {}
              /\ id \in gl.shaders
              /\ calls.DeleteShader[id] = 0

\* C11: the uniform mapping of every Program that exists has exactly one entry
\* per active uniform index of its program object: as many entries as active
\* uniforms, and for each index the entry keyed by the name the API reported
\* for it, holding the location looked up by that name, the reported type and
\* the reported size; no two entries share a name, and the mapping is empty
\* when there is no active uniform.
C11_OneEntryPerActiveUniform ==
    \A p \in heap :
        LET table == gl.uniforms[p.id]
            count == Len(table)
        IN  /\ Cardinality(p.uniforms) = count
            /\ \A uniform_id \in 0..(count - 1) :
                  LET u == GetActiveUniform(table, uniform_id, uniform_name_tmp_len)
                  IN  <<u.name, <<GetUniformLocation(table, u.name), u.type, u.size>>>>
                         \in p.uniforms
            /\ \A e1, e2 \in p.uniforms : e1[1] = e2[1] => e1 = e2
            /\ count = 0 => p.uniforms = {}

\* C12: the CompilationError of a build tells which stage failed to compile:
\* two builds that failed at different stages are never sent the same error
\* value.
C12_CompilationErrorNamesStage ==
    \A t1, t2 \in Threads :
        (/\ rx[t1].kind = "CompilationError"
         /\ rx[t2].kind = "CompilationError"
         /\ calls.build[t1].failed # calls.build[t2].failed)
        => rx[t1] # rx[t2]

\* The tasks whose submitter blocks on a channel until the result is posted.
Synchronous == {"build_shader", "link", "reflect"}

\* C13: every synchronous task the executor runs posts exactly one result:
\* the channel of the thread that submitted it is empty before the task runs
\* and holds a result (a value or an error) when the task has ended, whatever
\* path the task took.
C13_EveryTaskPostsOneResult ==
    [][ (/\ queue # <<>>
         /\ Head(queue).type \in Synchronous
         /\ queue' = Tail(queue))
        => /\ rx[Head(queue).t] = NoMsg
           /\ rx'[Head(queue).t].kind \notin {NoMsg.kind, Disconnected.kind} ]_vars

\* C14: the uniform map behind an Arc never changes and is not freed while
\* somebody holds the Arc: the map a reader obtained from
\* get_uniforms_locations is still allocated and is the map the reader found,
\* whatever was built, read or destroyed since, the Program it came from
\* included; and the map of every Program that exists is the one it was built
\* with.
C14_ObtainedMappingNeverChanges ==
    /\ \A r \in readers :
          /\ r.ptr \in DOMAIN arcs
          /\ arcs[r.ptr].data = r.seen
    /\ \A p \in heap :
          /\ p.id \in DOMAIN arcs
          /\ arcs[p.id].data = p.uniforms

C14_Witness ==
    \E r \in readers :
        /\ r.seen # {}
        /\ calls.DeleteProgram[r.ptr] = 1
        /\ arcs[r.ptr].data = r.seen
        /\ \E p \in heap : p.id # r.ptr
        /\ queue = <<>>

\* The stages of a build in the order of Program::new, with or without a
\* geometry source, and the position of a stage in it.
StageOrder(geometry) ==
    IF geometry THEN <<"vertex", "geometry", "fragment">>
    ELSE <<"vertex", "fragment">>
StageIndex(order, stage) == CHOOSE i \in DOMAIN order : order[i] = stage

\* The tasks of the queue submitted by thread t that are of one of these types.
QueuedBy(t, types) ==
    { i \in DOMAIN queue : queue[i].t = t /\ queue[i].type \in types }

\* C15: the stages of a build are compiled in the order vertex, geometry if
\* present, fragment.  From the moment a stage has failed: the stages compiled
\* are those before it (and the failing one itself, unless it got no handle),
\* no build_shader task for a later stage, no link task and no reflection task
\* of that build is queued or has run, and the error the call returns is the
\* failing stage's: CompilationError if its source was compiled,
\* ShaderTypeNotSupported if not.
C15_FirstFailureEndsTheBuild ==
    \A t \in Threads :
        LET b == calls.build[t]
            order == StageOrder(b.geometry)
        IN  /\ Len(b.uploads) <= Len(order)
            /\ b.uploads = SubSeq(order, 1, Len(b.uploads))
            /\ b.failed # "none" =>
                  /\ b.failed \in Range(order)
                  /\ Len(b.uploads) \in {StageIndex(order, b.failed) - 1,
                                        StageIndex(order, b.failed)}
                  /\ Len(b.created) = Len(b.uploads)
                  /\ QueuedBy(t, {"build_shader", "link", "reflect"}) = {}
                  /\ b.link = "none" /\ b.program = 0
                  /\ th[t].pc \notin {"recv_link", "recv_uniforms"}
                  /\ th[t].pc = "idle" =>
                        th[t].result =
                           IF b.failed \in Range(b.uploads) THEN "CompilationError"
                           ELSE "ShaderTypeNotSupported"

C15_Witness ==
    \E t \in Threads :
        /\ th[t].pc = "idle"
        /\ calls.build[t].geometry
        /\ calls.build[t].failed = "geometry"
        /\ calls.build[t].uploads = <<"vertex", "geometry">>
        /\ th[t].result = "CompilationError"
        /\ queue = <<>>

\* `text` ends with `part`.
EndsWith(text, part) ==
    /\ Len(part) <= Len(text)
    /\ SubSeq(text, Len(text) - Len(part) + 1, Len(text)) = part

\* C16: the text of every LinkingError a link task sends, whatever glGetError
\* returned, has the program's info log after the classification: it ends
\* with an info log of the driver.
C16_LinkingErrorEndsWithInfoLog ==
    \A t \in Threads :
        rx[t].kind = "LinkingError"
        => \E error_log \in InfoLogs : EndsWith(rx[t].msg, error_log)

\* C17: when CreateProgram returned 0 to the link task of a build, no
\* AttachShader and no LinkProgram call was made in that build, no reflection
\* task of the build is queued or awaited, the error on its way to the caller
\* and returned is ProgramCreationFailure, and once the call has returned and
\* the queue has drained every shader compiled for the build has been deleted
\* with one DeleteShader call and is no longer allocated.
C17_NoProgramHandleEndsTheBuild ==
    \A t \in Threads :
        LET b == calls.build[t]
        IN  (b.link # "none" /\ b.program = 0) =>
              /\ b.link = "not created"
              /\ b.attached = <<>>
              /\ QueuedBy(t, {"link", "reflect"}) = {}
              /\ th[t].pc # "recv_uniforms"
              /\ "ProgramCreationFailure" \in {rx[t].kind, th[t].err.kind, th[t].result}
              /\ th[t].pc = "idle" => th[t].result = "ProgramCreationFailure"
              /\ (th[t].pc = "idle" /\ queue = <<>>) =>
                    \A id \in CreatedIn(t) :
                        calls.DeleteShader[id] = 1 /\ id \notin gl.shaders

C17_Witness ==
    \E t \in Threads :
        /\ th[t].pc = "idle"
        /\ th[t].result = "ProgramCreationFailure"
        /\ calls.build[t].link = "not created"
        /\ Cardinality(CreatedIn(t)) = 3
        /\ queue = <<>>
        /\ \A id \in CreatedIn(t) : calls.DeleteShader[id] = 1 /\ id \notin gl.shaders

\* C18: a geometry stage on an opengl_es backend fails with
\* ShaderTypeNotSupported without a CreateShader call for that stage, so
\* without a handle and without a ShaderSource call for it; and a stage whose
\* CreateShader call returned 0 fails with ShaderTypeNotSupported without a
\* ShaderSource (and CompileShader) call for that stage.
C18_UnsupportedStageIsNotCompiled ==
    \A t \in Threads :
        LET b == calls.build[t]
            unsupported == "ShaderTypeNotSupported" \in
                              {rx[t].kind, th[t].err.kind, th[t].result}
        IN  /\ (opengl_es /\ b.failed = "geometry") =>
                  /\ unsupported
                  /\ \A i \in DOMAIN b.creates : b.creates[i][1] # "geometry"
                  /\ "geometry" \notin Range(b.uploads)
                  /\ Len(b.created) = 1
            /\ \A i \in DOMAIN b.creates :
                  IF b.creates[i][2] = 0
                  THEN /\ b.failed = b.creates[i][1]
                       /\ unsupported
                       /\ b.creates[i][1] \notin Range(b.uploads)
                       /\ 0 \notin Range(b.created) /\ 0 \notin gl.shaders
                  ELSE b.creates[i][1] \in Range(b.uploads)

C18_Witness ==
    \E t1, t2 \in Threads :
        /\ opengl_es
        /\ calls.build[t1].failed = "geometry"
        /\ calls.build[t1].creates = <<<<"vertex", 1>>>>
        /\ th[t1].pc = "idle" /\ th[t1].result = "ShaderTypeNotSupported"
        /\ calls.build[t2].failed = "fragment"
        /\ calls.build[t2].creates = <<<<"vertex", 4>>, <<"fragment", 0>>>>
        /\ th[t2].pc = "idle" /\ th[t2].result = "ShaderTypeNotSupported"

\* C19: the deletion of a Program's handle is submitted, and so runs, before
\* the deletions of the shaders it owns: for every shader attached to an
\* allocated, linked program object, no DeleteShader has run on it (it is not
\* flagged for deletion), and a DeleteShader task queued for it has the
\* DeleteProgram task of that program ahead of it in the queue.
C19_ProgramDeletedBeforeItsShaders ==
    \A p \in gl.programs \cap gl.linked :
        \A s \in gl.attached[p] :
            /\ calls.DeleteShader[s] = 0
            /\ s \notin gl.flagged
            /\ \A i \in Queued("delete_shader", s) :
                  \E j \in Queued("delete_program", p) : j < i

C19_Witness ==
    \E p \in gl.programs \cap gl.linked :
        /\ Cardinality(gl.attached[p]) = 3
        /\ \A s \in gl.attached[p] : Queued("delete_shader", s) # {}
        /\ Queued("delete_program", p) # {}
        /\ \E t \in Threads : th[t].result = "Dropped" /\ th[t].dropped.id = p

\* A step of Program::new or of one of its tasks, build_shader's included.
BuildStep ==
    \/ \E t \in Threads : \E vs \in Sources, fs \in Sources :
         \E gs \in Sources \cup {NoSource} : NewStart(t, vs, gs, fs)
    \/ \E t \in Threads : RecvShader(t) \/ RecvLink(t) \/ RecvUniforms(t)
    \/ \E t \in Threads : th[t].pc = "unwind" /\ DropShader(t)
    \/ ExecBuildShader \/ ExecLink \/ ExecReflect

\* C20: no step of Program::new, successful or failing, changes the tracked
\* bound program or the vertex array object cache; and in every step (the
\* destruction of a Program in particular) a cache key only goes away when
\* the Program it names is being dropped, and every Program that exists
\* before and after the step keeps its handles as they were: allocated,
\* linked, with the same shaders attached, not flagged, not deleted.
C20_BuildAndDropLeaveOthersAlone ==
    [][ /\ BuildStep =>
              /\ state_program' = state_program
              /\ vertex_array_objects' = vertex_array_objects
        /\ \A k \in vertex_array_objects \ vertex_array_objects' :
              \E p \in heap \ heap' : p.id = k[2]
        /\ \A q \in heap \cap heap' :
              /\ q.id \in gl'.programs \cap gl'.linked
              /\ gl'.attached[q.id] = gl.attached[q.id]
              /\ gl'.uniforms[q.id] = gl.uniforms[q.id]
              /\ calls'.DeleteProgram[q.id] = calls.DeleteProgram[q.id]
              /\ \A s \in Range(q.shaders) :
                    /\ s \in gl'.shaders \ gl'.flagged
                    /\ calls'.DeleteShader[s] = calls.DeleteShader[s] ]_vars

C20_Witness ==
    \E q \in heap :
        /\ \E k \in vertex_array_objects : k[2] = q.id
        /\ state_program = q.id
        /\ \E id \in ProgramNames \ {q.id} : calls.DeleteProgram[id] = 1
        /\ queue = <<>>
        /\ \E t \in Threads : th[t].result = "Dropped"

====
